---- MODULE Spec2Model ----
(***************************************************************************)
(* State-machine model of ubii.framework.client: UbiiClient (capability    *)
(* slots, the change_specs condition, the deferred notifier, the wrapped   *)
(* "wait until usable" task, reset and the async context manager) driven   *)
(* by an AbstractClientProtocol run; of the utilities util.hook,           *)
(* util.compose and util.exc_handler_decorator; and of the logging setup   *)
(* of ubii.interact.logging.                                               *)
(*                                                                         *)
(* One step of the model is one stretch of code between two suspension     *)
(* points of the asyncio scheduler (cooperative, single threaded).         *)
(***************************************************************************)
EXTENDS Naturals, Sequences, FiniteSets, TLC

VARIABLES
    behaviors,      \* UbiiClient._behaviors: kind -> instance (attribute -> value) or NoInst
    notifier,       \* UbiiClient._notifier is set (a Task object, truthy) or None (FALSE)
    notify_tasks,   \* number of _notify() tasks that are scheduled and not yet run
    undelivered,    \* history: a slot was written and no notify_all has run since
    nursery_alive,  \* protocol.task_nursery.sentinel_task is alive
    init_gen,       \* index of the task currently wrapped by UbiiClient._init
    init_tasks,     \* state of every task ever wrapped by UbiiClient._init
    fields,         \* the client's message fields (id, state)
    init_specs,     \* UbiiClient._init_specs
    ppc,            \* position of the protocol run
    relay,          \* the task on_connect creates: "none", "running" or "cancelled"
    hooklog,        \* history: the hooks executed in the current or last run, in order
    supports_reset, \* the concrete protocol defines a state change end_state -> None:
                    \* "yes" or "no", "unknown" until reset() first tries it
    ctx,            \* UbiiClient._ctx, the single _with_running_protocol() generator
    upc,            \* the application task that awaits the client or enters it
    uheld,          \* index of the init task that task is awaiting, 0 if none
    penter,         \* history: protocol.__aenter__ calls made by _ctx
    pexit,          \* history: protocol.__aexit__ calls made by _ctx
    resets,         \* history: number of reset() calls that did not raise
    prev_fields,    \* history: the message fields before the last such reset()
    replaced,       \* history: number of accepted client[kind] = value
    waiters,        \* further tasks that wait for the client: what each waits for and
                    \* how far it is
    declared,       \* the arguments of UbiiClient.__init__, kept by the client as
                    \* _required_behaviors and _optional_behaviors
    implement_timeout,  \* the class attribute UbiiClient.IMPLEMENT_TIMEOUT
    hook_obj,       \* a util.hook object: its decorators and its cached callables
    migrated,       \* the tasks in flight that the task nursery holds through the
                    \* stack of a dead nursery that reset() entered into it
    inner,          \* a call of a callable wrapped by util.exc_handler_decorator
    logging_setup,  \* ubii.interact.logging.logging_setup: its stack of configs
    clients,        \* further UbiiClient objects that run in one event loop, by name
    raised          \* the exception the raised call or step ended with, or "none"

vars == <<behaviors, notifier, notify_tasks, undelivered, nursery_alive, init_gen,
          init_tasks, fields, init_specs, ppc, relay, hooklog, supports_reset, ctx, upc,
          uheld, penter, pexit, resets, prev_fields, replaced, waiters, declared,
          implement_timeout, hook_obj, migrated, inner, logging_setup, clients, raised>>

-----------------------------------------------------------------------------
(* Bounds of the model *)

MaxResets == 1
MaxReplace == 1
NumWaiters == 2
MaxDecorators == 3
MaxConfigs == 3
MaxNesting == 2

-----------------------------------------------------------------------------
(* Capability kinds (behaviors) and their slots *)

None == "None"          \* Python None: the empty slot
Val == "val"            \* some value that is not None
Missing == "missing"    \* the object has no such attribute
NoKey == "no key"       \* the key is not in _behaviors

Services == "Services"
Publish == "Publish"
Register == "Register"
RunProcessingModules == "RunProcessingModules"

\* dataclasses.fields(kind), in declaration order
Fields(kind) ==
    CASE kind = Services -> <<"service_map">>
      [] kind = Publish -> <<"publish">>
      [] kind = Register -> <<"register", "deregister">>
      [] kind = RunProcessingModules -> <<"get_module_instance">>

Range(s) == {s[i] : i \in DOMAIN s}

\* the behaviours the client of this model is constructed with
required_behaviors == <<Services, Publish>>
optional_behaviors == <<Register>>

Declared == Range(required_behaviors) \cup Range(optional_behaviors)
AllKinds == Declared \cup {RunProcessingModules}
AllFields == UNION {Range(Fields(k)) : k \in AllKinds}

\* kind(**values): a dataclass instance, as the map of its attributes
Instance(kind, value) ==
    [f \in AllFields |-> IF f \in Range(Fields(kind)) THEN value ELSE Missing]

\* getattr(instance, name)
getattr(inst, name) == inst[name]

\* the entry of a key that _behaviors does not hold
NoInst == [f \in AllFields |-> NoKey]

\* the values the model assigns with client[key] = value: an empty or a filled
\* instance of the kind of the key or of another kind, or something that is no
\* dataclass
Assignable ==
    {[dataclass |-> TRUE, kind |-> Services, fill |-> None],
     [dataclass |-> TRUE, kind |-> Services, fill |-> Val],
     [dataclass |-> TRUE, kind |-> Publish, fill |-> Val],
     [dataclass |-> FALSE, kind |-> Services, fill |-> None]}


\* dataclasses.is_dataclass(value)
is_dataclass(value) == value.dataclass

-----------------------------------------------------------------------------
(* UbiiClient.implements: the predicate fields_not_none *)

\* faulty variant of FieldPairs: only the first field of every behavior is visited
RECURSIVE FieldPairs_first_field(_)
FieldPairs_first_field(bs) ==
    IF bs = <<>> THEN <<>>
    ELSE <<<<Head(bs), Fields(Head(bs))[1]>>>> \o FieldPairs_first_field(Tail(bs))

\* the (behavior, field) pairs in the order the generator expression visits them
RECURSIVE FieldPairs(_)
FieldPairs(bs) ==
    IF bs = <<>> THEN <<>>
    ELSE [i \in 1..Len(Fields(Head(bs))) |-> <<Head(bs), Fields(Head(bs))[i]>>]
         \o FieldPairs(Tail(bs))

\* all(getattr(self._behaviors[b], field.name) is not None for ...): all() stops at
\* the first None; a missing key or attribute raises
RECURSIVE all_is_not_none(_, _)
all_is_not_none(bmap, pairs) ==
    IF pairs = <<>> THEN "True"
    ELSE LET b == Head(pairs)[1]
             f == Head(pairs)[2]
         IN  IF bmap[b] = NoInst THEN "KeyError"
             ELSE IF getattr(bmap[b], f) = Missing THEN "AttributeError"
             ELSE IF getattr(bmap[b], f) = None THEN "False"
             ELSE all_is_not_none(bmap, Tail(pairs))

\* faulty variant of fields_not_none: the optional behaviors of the client are
\* inspected as well
fields_not_none_with_optional(bmap, bs) ==
    all_is_not_none(bmap, FieldPairs(bs \o optional_behaviors))

fields_not_none(bmap, bs) == all_is_not_none(bmap, FieldPairs(bs))

\* bool(client.implements(*bs)) in the current state
implements(bs) == fields_not_none(behaviors, bs)

\* faulty variant of wants: behaviors that are implemented are not wanted
wants_unless_implemented(bs) ==
    /\ \A i \in DOMAIN bs :
           bs[i] \in Range(declared.required) \/ bs[i] \in Range(declared.optional)
    /\ implements(bs) # "True"

\* client.wants(*bs)
wants(bs) ==
    \A i \in DOMAIN bs :
        bs[i] \in Range(declared.required) \/ bs[i] \in Range(declared.optional)

\* how a task evaluating the predicate under the condition continues
AfterCheck(result) ==
    CASE result = "True" -> "done"
      [] result = "False" -> "waiting"
      [] OTHER -> "failed"

Pending == {"new", "waiting", "notified"}
Terminal == {"done", "cancelled", "failed"}

\* A finished task that neither _init nor an awaiting task refers to is garbage:
\* its entry is "collected". "kept" is the set of indices still awaited.
Collected(tasks, kept) ==
    [i \in DOMAIN tasks |->
        IF tasks[i] \in Terminal /\ i \notin kept THEN "collected" ELSE tasks[i]]

-----------------------------------------------------------------------------
(* The protocol's state markers *)

was_started == ppc # "not_started"
finished == ppc = "end"

-----------------------------------------------------------------------------
(* UbiiClient.notify *)

\* faulty variant of notify: a task is created whether or not one is pending
notify_unguarded(marker, tasks) == <<TRUE, tasks + 1>>

\* one call of notify(): <<_notifier is set, scheduled _notify tasks>> afterwards
notify(marker, tasks) ==
    IF ~marker THEN <<TRUE, tasks + 1>> ELSE <<marker, tasks>>

RECURSIVE notify_times(_, _, _)
notify_times(n, marker, tasks) ==
    IF n = 0 THEN <<marker, tasks>>
    ELSE LET r == notify(marker, tasks) IN notify_times(n - 1, r[1], r[2])

\* n calls of notify() in the current state
Notified(n) ==
    LET r == notify_times(n, notifier, notify_tasks)
    IN  /\ notifier' = r[1]
        /\ notify_tasks' = r[2]
        /\ undelivered' = TRUE

-----------------------------------------------------------------------------
(* Tasks of the application that wait for the client *)

Waiters == 1..NumWaiters

\* kind: "client" for "await client", "client_timed" for "await
\* asyncio.wait_for(client, t)", "implements" for "await client.implements(*required)",
\* "implements_timed" for the same with timeout=t;
\* st: the state of the wait, and its outcome once it ended; held: the index of the
\* awaited task wrapped by _init; timedout: history, an implements wait of the task
\* ended with a timeout
IdleWaiter ==
    [kind |-> "none", st |-> "idle", held |-> 0, timedout |-> FALSE]

-----------------------------------------------------------------------------
(* util.hook and util.compose *)

\* the callable a hook is made of; a callable is written as the sequence of the
\* decorators wrapped around func, the outermost first: <<"b", "a", "func">> is
\* b(a(func))
func == "func"

\* compose(*funcs)(x): functools.reduce(lambda g, f: lambda *a: f(g(*a)), funcs)
\* called with x
RECURSIVE compose(_, _)
compose(funcs, x) ==
    IF funcs = <<>> THEN x ELSE compose(Tail(funcs), <<Head(funcs)>> \o x)

\* the objects a hook is called through: two instances of the class the hook is a
\* method of; None stands for a call of the hook itself, through no instance
Instances == {"x", "y"}

\* a dict: a function whose domain is the set of its keys; <<>> is the empty dict
Put(d, key, value) == [k \in DOMAIN d \cup {key} |-> IF k = key THEN value ELSE d[k]]
Pop(d, key) == IF DOMAIN d \ {key} = {} THEN <<>> ELSE [k \in DOMAIN d \ {key} |-> d[k]]
Get(d, key, default) == IF key \in DOMAIN d THEN d[key] ELSE default

\* hook(func): decorators is _global_decorators, instance_decorators and
\* instance_callables are the dicts _instance_decorators and _instance_callables
\* (an instance callable is written as the instance decorators composed around the
\* hook, <<>> being the hook itself), applied is _applied (<<>>: None); result and
\* instance are history: the callable the last call evaluated (<<>>: no call since
\* the last registration) and the instance it was made through (None: through no
\* instance)
NewHook ==
    [decorators |-> <<>>, instance_decorators |-> <<>>, applied |-> <<>>,
     instance_callables |-> <<>>, result |-> <<>>, instance |-> None]

\* hook.register_decorator(decorator, instance)
register_decorator(h, decorator, instance) ==
    IF instance # None
    THEN [h EXCEPT !.instance_decorators =
                       Put(@, instance, Append(Get(@, instance, <<>>), decorator)),
                   !.instance_callables = Pop(@, instance),
                   !.result = <<>>]
    ELSE [h EXCEPT !.decorators = Append(@, decorator),
                   !.applied = <<>>,
                   !.result = <<>>]

\* hook.__call__; instance is the object it is called through (__get__ of the
\* instance), or None for a call of the hook itself
call(h, instance) ==
    LET applied == IF h.applied # <<>> THEN h.applied
                   ELSE IF h.decorators # <<>> THEN compose(h.decorators, <<func>>)
                   ELSE <<func>>
    IN  IF instance = None
        THEN [h EXCEPT !.applied = applied, !.result = applied, !.instance = None]
        ELSE LET callable == IF /\ instance \notin DOMAIN h.instance_callables
                                /\ instance \in DOMAIN h.instance_decorators
                             THEN h.instance_decorators[instance]
                             ELSE <<>>
             IN  [h EXCEPT !.applied = applied,
                           !.instance_callables = Put(@, instance, callable),
                           !.result = compose(callable, applied),
                           !.instance = instance]

-----------------------------------------------------------------------------
(* util.exc_handler_decorator *)

\* what a call can raise: an exception that derives from Exception, and three that
\* derive from BaseException only; a task that is cancelled while it awaits gets
\* asyncio.CancelledError from the await
Exceptions == {"Exception", "CancelledError", "KeyboardInterrupt", "SystemExit"}
NoExc == "no exception"
NoResult == "no result"

\* what a call of fun(*args, **kwargs) or of handler(*exc_info) does: it returns a
\* value that is no future and no coroutine, it raises, or it returns a future or
\* coroutine ("awaitable") whose outcome is known when the await ends
Returns(value) == [does |-> "returns", value |-> value, exc |-> NoExc]
Raises(exc) == [does |-> "raises", value |-> NoResult, exc |-> exc]
Awaitable == [does |-> "awaitable", value |-> NoResult, exc |-> NoExc]
Outcomes == {Returns(v) : v \in {None, Val}} \cup {Raises(e) : e \in Exceptions}
Behaviours == Outcomes \cup {Awaitable}

\* no call of _inner has been made
NewInner == [pc |-> "idle"]

\* a call of _inner when it starts. pc: "await_result" (suspended in "result = await
\* result"), "await_handler" (suspended in "await result" of the except clause),
\* "returned", "raised"; fun, handler: what the wrapped callable did when it was
\* called and what the handler does when it is called; result, propagated: what
\* the call returned or raised; history: calls (the calls of the handler made by
\* this call of _inner), exc_info (what the handler was given), thrown (what fun or
\* the await of its result raised), produced (what fun or the await of its result
\* returned), handler_thrown (what the handler or the await of its result raised)
Frame(fun, handler) ==
    [pc |-> "running", fun |-> fun, handler |-> handler, result |-> NoResult,
     propagated |-> NoExc, calls |-> 0, exc_info |-> NoExc, thrown |-> NoExc,
     produced |-> NoResult, handler_thrown |-> NoExc]

\* faulty variant of except_clause: "except Exception:"
except_clause_exception_only(exc) == exc = "Exception"

\* "except:  # noqa" catches every exception, with BaseException
except_clause(exc) == exc \in Exceptions

\* "return result" of the try block
returned(st, value) ==
    [st EXCEPT !.pc = "returned", !.result = value, !.produced = value]

\* the end of the except clause: the coroutine function returns without a return
\* statement; what the handler returned is dropped
handler_returned(st) == [st EXCEPT !.pc = "returned", !.result = None]

handler_raised(st, exc) ==
    [st EXCEPT !.pc = "raised", !.propagated = exc, !.handler_thrown = exc]

\* the try block raised exc: the except clause, up to its await or its end
excepted(st, exc) ==
    IF ~except_clause(exc)
    THEN [st EXCEPT !.pc = "raised", !.propagated = exc, !.thrown = exc]
    ELSE LET called == [st EXCEPT !.calls = @ + 1, !.exc_info = exc, !.thrown = exc]
         IN  CASE st.handler.does = "returns" -> handler_returned(called)
               [] st.handler.does = "raises" -> handler_raised(called, st.handler.exc)
               [] OTHER -> [called EXCEPT !.pc = "await_handler"]

\* _inner(*args, **kwargs) up to its first await or its end; fun and handler say
\* what the wrapped callable and the handler do
inner_call(fun, handler) ==
    LET st == Frame(fun, handler)
    IN  CASE fun.does = "returns" -> returned(st, fun.value)
          [] fun.does = "raises" -> excepted(st, fun.exc)
          [] OTHER -> [st EXCEPT !.pc = "await_result"]

\* "result = await result" ends with the outcome
result_awaited(st, outcome) ==
    IF outcome.does = "returns" THEN returned(st, outcome.value)
    ELSE excepted(st, outcome.exc)

\* "await result" of the except clause ends with the outcome
handler_awaited(st, outcome) ==
    IF outcome.does = "returns" THEN handler_returned(st)
    ELSE handler_raised(st, outcome.exc)

-----------------------------------------------------------------------------
(* ubii.interact.logging: _logging_setup *)

\* an element of the list _configs: a log_config namedtuple, or one of the plain
\* objects a slice assignment from a namedtuple, a dict or a str puts into the list
log_config(config, level, warning_filter) ==
    [type |-> "log_config", config |-> config, level |-> level,
     warning_filter |-> warning_filter, text |-> ""]
Dict(config) ==
    [type |-> "dict", config |-> config, level |-> "", warning_filter |-> "", text |-> ""]
Int(level) ==
    [type |-> "int", config |-> "", level |-> level, warning_filter |-> "", text |-> ""]
Str(text) ==
    [type |-> "str", config |-> "", level |-> "", warning_filter |-> "", text |-> text]

\* logging_setup = _logging_setup(base_config=__config__, log_level=logging.INFO,
\* warning_filter='default'); the base config is a dict with the key 'version'
base_config == log_config("base", "INFO", "default")

\* iter(str): its characters
Chars(text) ==
    CASE text = "default" -> <<"d", "e", "f", "a", "u", "l", "t">>
      [] text = "version" -> <<"v", "e", "r", "s", "i", "o", "n">>
      [] OTHER -> <<text>>

\* iter(element), what "self._configs[:] = element" puts into the list: the fields of
\* a namedtuple, the keys of a dict, the characters of a str; an int is not iterable
Iterable(e) == e.type # "int"
Iterated(e) ==
    CASE e.type = "log_config" -> <<Dict(e.config), Int(e.level), Str(e.warning_filter)>>
      [] e.type = "dict" -> <<Str("version")>>
      [] e.type = "str" -> [i \in DOMAIN Chars(e.text) |-> Str(Chars(e.text)[i])]
      [] OTHER -> <<>>

\* the property effective_config: self.log_config(**self._configs[-1]._asdict());
\* exc is the exception the evaluation raises
effective_config(configs) ==
    IF configs = <<>> THEN [exc |-> "IndexError", value |-> base_config]
    ELSE IF configs[Len(configs)].type # "log_config"
    THEN [exc |-> "AttributeError", value |-> base_config]
    ELSE [exc |-> "none", value |-> configs[Len(configs)]]

\* the state of a _logging_setup: configs is _configs, applied is the config the
\* logging framework was last configured with (logging.config.dictConfig in _apply)
\* depth is the number of with-blocks of the setup that are entered and not left
NewLoggingSetup ==
    [imported |-> TRUE, configs |-> <<base_config>>, applied |-> base_config, depth |-> 0]

\* the module ubii.interact.logging is not imported: there is no logging_setup
NotImported == [imported |-> FALSE]

\* what a call makes of the setup: the setup afterwards and the exception it raised
Outcome(st, exc) == [setup |-> st, exc |-> exc]

\* _apply()
apply(st) ==
    LET eff == effective_config(st.configs)
    IN  IF eff.exc # "none" THEN Outcome(st, eff.exc)
        ELSE Outcome([st EXCEPT !.applied = eff.value], "none")

\* the arguments of change: config is None, an empty dict, a dict with
\* 'incremental': True, or another dict; verbosity is None or a level
ConfigArgs == {None, "empty", "incremental", "custom"}
VerbosityArgs == {None, "INFO", "DEBUG"}

\* change(config, verbosity)
change(st, config, verbosity) ==
    LET eff == effective_config(st.configs)
        level == IF verbosity = None THEN eff.value.level ELSE verbosity
        dict == CASE config \in {None, "empty"} -> eff.value.config
                  [] config = "incremental" -> "merged"
                  [] OTHER -> config
    IN  IF config = None /\ verbosity = None THEN Outcome(st, "ValueError")
        ELSE IF eff.exc # "none" THEN Outcome(st, eff.exc)
        ELSE apply([st EXCEPT !.configs =
                       Append(@, log_config(dict, level, eff.value.warning_filter))])

\* reset(): self._configs[:] = self._configs[0], then _apply()
reset(st) ==
    IF st.configs = <<>> THEN Outcome(st, "IndexError")
    ELSE IF ~Iterable(st.configs[1]) THEN Outcome(st, "TypeError")
    ELSE apply([st EXCEPT !.configs = Iterated(st.configs[1])])

\* __exit__(*exc_info)
exit(st, raises) ==
    IF raises THEN reset(st)
    ELSE IF st.configs = <<>> THEN Outcome(st, "IndexError")
    ELSE apply([st EXCEPT !.configs = SubSeq(@, 1, Len(@) - 1)])

-----------------------------------------------------------------------------
(* Two clients in one event loop that declare the same behaviors *)

Clients == {"A", "B"}

\* a UbiiClient after __init__: behaviors is _behaviors, notifier and notify_tasks are
\* _notifier and the _notify tasks scheduled for it, init is the state of the task
\* wrapped by _init
NewClient ==
    LET r == notify_times(Len(FieldPairs(required_behaviors \o optional_behaviors)),
                          FALSE, 0)
    IN  [behaviors |-> [k \in AllKinds |->
                           IF k \in Declared THEN Instance(k, None) ELSE NoInst],
         notifier |-> r[1], notify_tasks |-> r[2], init |-> "new"]

\* faulty variant of patch_behavior: the proxies of every client notify client "B"
patch_behavior_one_client(self) == "B"

\* _patch_behavior(self, behavior): the client that __setattr__ of the proxy class
\* notifies ("client = self"; every call defines a class of its own)
patch_behavior(self) == self

\* the condition a client waits on and notifies: "self._change_specs =
\* asyncio.Condition()" of its __init__
change_specs(self) == self

\* client.notify() for one of the clients
client_notified(cs, c) ==
    LET r == notify(cs[c].notifier, cs[c].notify_tasks)
    IN  [cs EXCEPT ![c].notifier = r[1], ![c].notify_tasks = r[2]]

\* client[key].name = value through the proxy of client c: super().__setattr__, then
\* notify() of the client the proxy class was made for
slot_written(cs, c, key, name, value) ==
    client_notified([cs EXCEPT ![c].behaviors[key][name] = value], patch_behavior(c))

-----------------------------------------------------------------------------
(* Construction: the state after UbiiClient.__init__ *)

BrokerId == "broker-id"

\* the proxies are created with all fields None; the generated __init__ assigns every
\* field through the patched __setattr__, which calls notify()
Init ==
    /\ behaviors = [k \in AllKinds |-> IF k \in Declared THEN Instance(k, None) ELSE NoInst]
    /\ LET r == notify_times(Len(FieldPairs(required_behaviors \o optional_behaviors)),
                             FALSE, 0)
       IN  notifier = r[1] /\ notify_tasks = r[2]
    /\ undelivered = TRUE
    /\ nursery_alive = TRUE
    /\ init_gen = 1
    /\ init_tasks = <<"new">>
    /\ fields = [id |-> "", state |-> "UNAVAILABLE"]
    /\ init_specs = [id |-> "", state |-> "UNAVAILABLE"]
    /\ ppc = "not_started"
    /\ relay = "none"
    /\ hooklog = <<>>
    /\ supports_reset = "unknown"
    /\ ctx = "fresh"
    /\ upc = "idle"
    /\ uheld = 0
    /\ penter = 0
    /\ pexit = 0
    /\ resets = 0
    /\ prev_fields = [id |-> "", state |-> "UNAVAILABLE"]
    /\ replaced = 0
    /\ waiters = [w \in Waiters |-> IdleWaiter]
    /\ declared = [required |-> required_behaviors, optional |-> optional_behaviors]
    /\ implement_timeout = None
    /\ hook_obj = NewHook
    /\ inner = NewInner
    /\ logging_setup = NotImported
    /\ clients = <<>>
    /\ migrated = 0
    /\ raised = "none"

-----------------------------------------------------------------------------
(* Capability slots *)

\* the application task is not suspended in an await of the client
AppRuns == upc \in {"idle", "body"}

\* faulty variant of SlotWrite: the write itself wakes the tasks that wait on the
\* condition
SlotWrite_wakes(key, name, value) ==
    /\ behaviors[key] # NoInst
    /\ behaviors' = [behaviors EXCEPT ![key][name] = value]
    /\ Notified(1)
    /\ init_tasks' = [i \in DOMAIN init_tasks |->
                         IF init_tasks[i] = "waiting" THEN "notified" ELSE init_tasks[i]]
    /\ raised' = "none"
    /\ UNCHANGED <<nursery_alive, init_gen, fields, init_specs, ppc,
                   relay, hooklog, supports_reset, ctx, upc, uheld, penter, pexit, resets,
                   prev_fields, replaced>>
    /\ UNCHANGED <<waiters, declared, implement_timeout, hook_obj, migrated>>
    /\ UNCHANGED <<inner, logging_setup, clients>>

\* client[key].name = value: _patch_behavior.__setattr__
SlotWrite(key, name, value) ==
    /\ behaviors[key] # NoInst
    /\ behaviors' = [behaviors EXCEPT ![key][name] = value]
    /\ Notified(1)
    /\ raised' = "none"
    /\ UNCHANGED <<nursery_alive, init_gen, init_tasks, fields, init_specs, ppc,
                   relay, hooklog, supports_reset, ctx, upc, uheld, penter, pexit, resets,
                   prev_fields, replaced>>
    /\ UNCHANGED <<waiters, declared, implement_timeout, hook_obj, migrated>>
    /\ UNCHANGED <<inner, logging_setup, clients>>

\* client[key] = value, a call of the application task: UbiiClient.__setitem__
SetItem(key, value) ==
    /\ AppRuns
    /\ IF ~is_dataclass(value)
       THEN /\ raised' = "setitem:ValueError"
            /\ UNCHANGED <<behaviors, notifier, notify_tasks, undelivered, replaced>>
       ELSE /\ replaced < MaxReplace
            /\ behaviors' = [behaviors EXCEPT ![key] = Instance(value.kind, value.fill)]
            /\ Notified(Len(Fields(value.kind)) + 1)
            /\ replaced' = replaced + 1
            /\ raised' = "none"
    /\ UNCHANGED <<nursery_alive, init_gen, init_tasks, fields, init_specs, ppc,
                   relay, hooklog, supports_reset, ctx, upc, uheld, penter, pexit, resets,
                   prev_fields>>
    /\ UNCHANGED <<waiters, declared, implement_timeout, hook_obj, migrated>>
    /\ UNCHANGED <<inner, logging_setup, clients>>

\* the task created by notify() runs: notify_all() wakes every task that waits on
\* the condition, and the marker is cleared
Wake(state) == IF state = "waiting" THEN "notified" ELSE state

Deliver ==
    /\ notify_tasks > 0
    /\ init_tasks' = [i \in DOMAIN init_tasks |-> Wake(init_tasks[i])]
    /\ notifier' = FALSE
    /\ notify_tasks' = notify_tasks - 1
    /\ undelivered' = FALSE
    /\ raised' = "none"
    /\ UNCHANGED <<behaviors, nursery_alive, init_gen, fields, init_specs, ppc, relay, hooklog,
                   supports_reset, ctx, upc, uheld, penter, pexit, resets, prev_fields,
                   replaced>>
    /\ waiters' = [w \in Waiters |-> [waiters[w] EXCEPT !.st = Wake(@)]]
    /\ migrated' = 0
    /\ UNCHANGED <<declared, implement_timeout, hook_obj>>
    /\ UNCHANGED <<inner, logging_setup, clients>>

\* faulty variant of InitTaskStep: the task returns the client without waiting for
\* implements(...)
InitTaskStep_no_wait(g) ==
    /\ g \in DOMAIN init_tasks
    /\ init_tasks[g] \in {"new", "notified"}
    /\ init_tasks' = [init_tasks EXCEPT ![g] = "done"]
    /\ raised' = "none"
    /\ UNCHANGED <<behaviors, notifier, notify_tasks, undelivered, nursery_alive,
                   init_gen, fields, init_specs, ppc, relay, hooklog, supports_reset, ctx, upc,
                   uheld, penter, pexit, resets, prev_fields, replaced>>
    /\ UNCHANGED <<waiters, declared, implement_timeout, hook_obj, migrated>>
    /\ UNCHANGED <<inner, logging_setup, clients>>

\* a task wrapped by _init runs _wait_for_client_implementation up to its next
\* suspension: it checks the predicate when it starts and after every wake-up
InitTaskStep(g) ==
    /\ g \in DOMAIN init_tasks
    /\ init_tasks[g] \in {"new", "notified"}
    /\ init_tasks' = [init_tasks EXCEPT ![g] = AfterCheck(implements(declared.required))]
    /\ raised' = "none"
    /\ UNCHANGED <<behaviors, notifier, notify_tasks, undelivered, nursery_alive,
                   init_gen, fields, init_specs, ppc, relay, hooklog, supports_reset, ctx, upc,
                   uheld, penter, pexit, resets, prev_fields, replaced>>
    /\ UNCHANGED <<waiters, declared, implement_timeout, hook_obj, migrated>>
    /\ UNCHANGED <<inner, logging_setup, clients>>

-----------------------------------------------------------------------------
(* The protocol run *)

\* the awaited calls of the hooks of one run, in order
Steps == <<"create_service_map", "update_config", "update_services", "create_client",
           "register_client", "create_topic_connection", "implement_client",
           "await_client", "spawn_relay", "running">>

HookOf(step) ==
    CASE step \in {"create_service_map", "update_config", "update_services",
                   "create_client"} -> "on_start"
      [] step = "register_client" -> "on_create"
      [] step \in {"create_topic_connection", "implement_client", "await_client"}
            -> "on_registration"
      [] step = "spawn_relay" -> "on_connect"

\* faulty variant of StepAfter: on_start does not await update_config
StepAfter_skips(step) ==
    IF step = "create_service_map" THEN "update_services"
    ELSE Steps[(CHOOSE i \in DOMAIN Steps : Steps[i] = step) + 1]

StepAfter(step) == Steps[(CHOOSE i \in DOMAIN Steps : Steps[i] = step) + 1]

Entered(log, hook) ==
    IF log # <<>> /\ log[Len(log)] = hook THEN log ELSE Append(log, hook)

\* faulty variant of StartIfNeeded: the protocol is started unless it is running
StartIfNeeded_unless_running ==
    IF ~was_started \/ finished
    THEN /\ ppc' = Steps[1]
         /\ hooklog' = <<>>
    ELSE UNCHANGED <<ppc, hooklog>>

\* faulty variant of StartIfNeeded: protocol.start() is called by every await
StartIfNeeded_always ==
    /\ ppc' = Steps[1]
    /\ hooklog' = IF was_started THEN hooklog ELSE <<>>

\* protocol.start(), called by UbiiClient.__await__ unless protocol.was_started
StartIfNeeded ==
    IF ~was_started
    THEN /\ ppc' = Steps[1]
         /\ hooklog' = <<>>
    ELSE UNCHANGED <<ppc, hooklog>>

\* on_start, on_create, the first two calls of on_registration, on_connect: one
\* awaited call completes
RunStep ==
    /\ ppc \in {"create_service_map", "update_config", "update_services",
                "create_client", "register_client", "create_topic_connection",
                "implement_client", "spawn_relay"}
    /\ hooklog' = Entered(hooklog, HookOf(ppc))
    /\ fields' = IF ppc = "register_client" THEN [fields EXCEPT !.id = BrokerId]
                 ELSE fields
    /\ relay' = IF ppc = "spawn_relay" THEN "running" ELSE relay
    /\ ppc' = StepAfter(ppc)
    /\ raised' = "none"
    /\ UNCHANGED <<behaviors, notifier, notify_tasks, undelivered, nursery_alive,
                   init_gen, init_tasks, init_specs, supports_reset, ctx, upc, uheld,
                   penter, pexit, resets, prev_fields, replaced>>
    /\ UNCHANGED <<waiters, declared, implement_timeout, hook_obj, migrated>>
    /\ UNCHANGED <<inner, logging_setup, clients>>

\* faulty variant of RegistrationDone: the status is set without the wait
RegistrationDone_no_wait ==
    /\ ppc = "await_client"
    /\ fields' = [fields EXCEPT !.state = "ACTIVE"]
    /\ ppc' = StepAfter(ppc)
    /\ raised' = "none"
    /\ UNCHANGED <<behaviors, notifier, notify_tasks, undelivered, nursery_alive,
                   init_gen, init_tasks, init_specs, relay, hooklog, supports_reset,
                   ctx, upc, uheld, penter, pexit, resets, prev_fields, replaced>>
    /\ UNCHANGED <<waiters, declared, implement_timeout, hook_obj, migrated>>
    /\ UNCHANGED <<inner, logging_setup, clients>>

\* on_registration: asyncio.wait_for(context.client, timeout=5) returned the client
RegistrationDone ==
    /\ ppc = "await_client"
    /\ init_tasks[init_gen] = "done"
    /\ fields' = [fields EXCEPT !.state = "ACTIVE"]
    /\ ppc' = StepAfter(ppc)
    /\ raised' = "none"
    /\ UNCHANGED <<behaviors, notifier, notify_tasks, undelivered, nursery_alive,
                   init_gen, init_tasks, init_specs, relay, hooklog, supports_reset, ctx, upc,
                   uheld, penter, pexit, resets, prev_fields, replaced>>
    /\ UNCHANGED <<waiters, declared, implement_timeout, hook_obj, migrated>>
    /\ UNCHANGED <<inner, logging_setup, clients>>

\* faulty variant of NurseryTasks: the task wrapped by _init is created with
\* asyncio.create_task, outside the nursery
NurseryTasks_without_init == {"notify", "relay"}

\* the tasks the client and the hooks create with task_nursery.create_task: the task
\* wrapped by _init, the _notify task, the task of on_connect
NurseryTasks == {"init", "notify", "relay"}

Cancelled(tasks) ==
    [i \in DOMAIN tasks |-> IF tasks[i] \in Pending THEN "cancelled" ELSE tasks[i]]

\* faulty variant of on_stop: the status is left as it is
on_stop_keeps_status(flds) == flds

\* AbstractClientProtocol.on_stop: the message fields of the client afterwards
on_stop(flds) == [flds EXCEPT !.state = "UNAVAILABLE"]

\* the end of a run: on_stop, then the task nursery closes: every task created in it
\* is cancelled and the registration context is left, which deregisters the client
\* ("deregistered": the call reached the broker and the id was cleared)
Teardown(deregistered) ==
    IF finished
    THEN UNCHANGED <<ppc, relay, hooklog, fields, init_tasks, notify_tasks, nursery_alive,
                     migrated>>
    ELSE /\ ppc' = "end"
         /\ hooklog' = Append(hooklog, "on_stop")
         /\ fields' = [on_stop(fields) EXCEPT !.id = IF deregistered THEN "" ELSE @]
         /\ init_tasks' = IF "init" \in NurseryTasks THEN Cancelled(init_tasks)
                          ELSE init_tasks
         /\ notify_tasks' = IF "notify" \in NurseryTasks THEN 0 ELSE notify_tasks
         /\ relay' = IF relay = "running" /\ "relay" \in NurseryTasks THEN "cancelled"
                     ELSE relay
         /\ nursery_alive' = FALSE
         /\ migrated' = 0

\* faulty variant of RegistrationFails: asyncio.TimeoutError is not converted
RegistrationFails_raw_timeout(deregistered) ==
    /\ ppc = "await_client"
    /\ init_tasks[init_gen] # "done"
    /\ Teardown(deregistered)
    /\ raised' = IF init_tasks[init_gen] \in Pending THEN "run:TimeoutError"
                 ELSE "run:raised"
    /\ UNCHANGED <<behaviors, notifier, undelivered, init_gen, init_specs,
                   supports_reset, ctx, upc, uheld, penter, pexit, resets, prev_fields,
                   replaced>>
    /\ UNCHANGED <<waiters, declared, implement_timeout, hook_obj>>
    /\ UNCHANGED <<inner, logging_setup, clients>>

\* on_registration: the wait for the client raised. Either the 5 s passed while the
\* awaited task was pending (asyncio.TimeoutError, raised again as RuntimeError; the
\* awaited task is cancelled by wait_for), or the awaited task had failed or was
\* cancelled, and its exception passes through; the error ends the run
RegistrationFails(deregistered) ==
    /\ ppc = "await_client"
    /\ init_tasks[init_gen] # "done"
    /\ Teardown(deregistered)
    /\ raised' = IF init_tasks[init_gen] \in Pending THEN "run:RuntimeError"
                 ELSE "run:raised"
    /\ UNCHANGED <<behaviors, notifier, undelivered, init_gen, init_specs,
                   supports_reset, ctx, upc, uheld, penter, pexit, resets, prev_fields,
                   replaced>>
    /\ UNCHANGED <<waiters, declared, implement_timeout, hook_obj>>
    /\ UNCHANGED <<inner, logging_setup, clients>>

\* faulty variant of HookFails: an error of the deregistration replaces the error of
\* the hook
HookFails_masked(deregistered) ==
    /\ ppc \in Range(Steps) \ {"await_client", "running"}
    /\ Teardown(deregistered)
    /\ raised' = IF deregistered THEN "run:hook error" ELSE "run:teardown error"
    /\ UNCHANGED <<behaviors, notifier, undelivered, init_gen, init_specs,
                   supports_reset, ctx, upc, uheld, penter, pexit, resets, prev_fields,
                   replaced>>
    /\ UNCHANGED <<waiters, declared, implement_timeout, hook_obj>>
    /\ UNCHANGED <<inner, logging_setup, clients>>

\* the awaited call of a hook raises: the run is aborted, the nursery closes, and the
\* error of the hook reaches the driver of the run, also when the deregistration
\* failed
HookFails(deregistered) ==
    /\ ppc \in Range(Steps) \ {"await_client", "running"}
    /\ Teardown(deregistered)
    /\ raised' = "run:hook error"
    /\ UNCHANGED <<behaviors, notifier, undelivered, init_gen, init_specs,
                   supports_reset, ctx, upc, uheld, penter, pexit, resets, prev_fields,
                   replaced>>
    /\ UNCHANGED <<waiters, declared, implement_timeout, hook_obj>>
    /\ UNCHANGED <<inner, logging_setup, clients>>

\* the run is stopped from outside
ProtocolStop(deregistered) ==
    /\ was_started
    /\ ~finished
    /\ Teardown(deregistered)
    /\ raised' = "none"
    /\ UNCHANGED <<behaviors, notifier, undelivered, init_gen, init_specs,
                   supports_reset, ctx, upc, uheld, penter, pexit, resets, prev_fields,
                   replaced>>
    /\ UNCHANGED <<waiters, declared, implement_timeout, hook_obj>>
    /\ UNCHANGED <<inner, logging_setup, clients>>

-----------------------------------------------------------------------------
(* Awaiting the client, and the client as an async context manager *)

\* the index of the task the application task awaits
Awaited == IF upc \in {"awaiting", "awaiting_plain"} THEN {uheld} ELSE {}

\* "await client": UbiiClient.__await__ up to the await of the wrapped task
AwaitClient ==
    /\ upc = "idle"
    /\ StartIfNeeded
    /\ uheld' = init_gen
    /\ upc' = "awaiting_plain"
    /\ raised' = "none"
    /\ UNCHANGED <<relay, behaviors, notifier, notify_tasks, undelivered, nursery_alive,
                   init_gen, init_tasks, fields, init_specs, supports_reset, ctx,
                   penter, pexit, resets, prev_fields, replaced>>
    /\ UNCHANGED <<waiters, declared, implement_timeout, hook_obj, migrated>>
    /\ UNCHANGED <<inner, logging_setup, clients>>

\* the awaited task has finished: the await returns the client or raises
AwaitResume ==
    /\ upc = "awaiting_plain"
    /\ init_tasks[uheld] \in Terminal
    /\ upc' = "idle"
    /\ uheld' = 0
    /\ init_tasks' = Collected(init_tasks, {init_gen})
    /\ raised' = IF init_tasks[uheld] = "done" THEN "none" ELSE "await:raised"
    /\ UNCHANGED <<behaviors, notifier, notify_tasks, undelivered, nursery_alive,
                   init_gen, fields, init_specs, ppc, relay, hooklog, supports_reset, ctx,
                   penter, pexit, resets, prev_fields, replaced>>
    /\ UNCHANGED <<waiters, declared, implement_timeout, hook_obj, migrated>>
    /\ UNCHANGED <<inner, logging_setup, clients>>

\* "async with client": __aenter__ runs the generator of _ctx up to "await self".
\* _ctx is the one object made in __init__; a generator context manager can be
\* entered once (its __aenter__ deletes the arguments it was made with)
ScopeEnter ==
    /\ upc = "idle"
    /\ IF ctx = "used"
       THEN /\ upc' = "idle"
            /\ raised' = "aenter:AttributeError"
            /\ UNCHANGED <<ctx, penter, uheld, ppc, hooklog>>
       ELSE /\ ctx' = "used"
            /\ penter' = penter + 1
            /\ StartIfNeeded
            /\ uheld' = init_gen
            /\ upc' = "awaiting"
            /\ raised' = "none"
    /\ UNCHANGED <<behaviors, notifier, notify_tasks, undelivered, nursery_alive, relay,
                   init_gen, init_tasks, fields, init_specs, supports_reset, pexit,
                   resets, prev_fields, replaced>>
    /\ UNCHANGED <<waiters, declared, implement_timeout, hook_obj, migrated>>
    /\ UNCHANGED <<inner, logging_setup, clients>>

\* faulty variant of ScopeResume: "await self" is not inside "async with
\* self.protocol", an error of the wait leaves the protocol as it is
ScopeResume_no_release(deregistered) ==
    /\ upc = "awaiting"
    /\ init_tasks[uheld] \in Terminal
    /\ uheld' = 0
    /\ IF init_tasks[uheld] = "done"
       THEN /\ upc' = "body"
            /\ raised' = "none"
            /\ init_tasks' = Collected(init_tasks, {init_gen})
       ELSE /\ upc' = "idle"
            /\ raised' = "aenter:raised"
            /\ UNCHANGED init_tasks
    /\ UNCHANGED <<pexit, ppc, relay, hooklog, fields, notify_tasks, nursery_alive>>
    /\ UNCHANGED <<behaviors, notifier, undelivered, init_gen, init_specs,
                   supports_reset, ctx, penter, resets, prev_fields, replaced>>
    /\ UNCHANGED <<waiters, declared, implement_timeout, hook_obj, migrated>>
    /\ UNCHANGED <<inner, logging_setup, clients>>

\* the wrapped task has finished: the generator yields the client, or the error
\* leaves "async with self.protocol"
ScopeResume(deregistered) ==
    /\ upc = "awaiting"
    /\ init_tasks[uheld] \in Terminal
    /\ uheld' = 0
    /\ IF init_tasks[uheld] = "done"
       THEN /\ upc' = "body"
            /\ raised' = "none"
            /\ init_tasks' = Collected(init_tasks, {init_gen})
            /\ UNCHANGED <<pexit, ppc, relay, hooklog, fields, notify_tasks, nursery_alive,
                           migrated>>
       ELSE /\ pexit' = pexit + 1
            /\ Teardown(deregistered)
            /\ upc' = "idle"
            /\ raised' = "aenter:raised"
    /\ UNCHANGED <<behaviors, notifier, undelivered, init_gen, init_specs,
                   supports_reset, ctx, penter, resets, prev_fields, replaced>>
    /\ UNCHANGED <<waiters, declared, implement_timeout, hook_obj>>
    /\ UNCHANGED <<inner, logging_setup, clients>>

\* the body of "async with client" ends, normally or with an exception: __aexit__
\* resumes the generator, which leaves "async with self.protocol"
ScopeExit(raises, deregistered) ==
    /\ upc = "body"
    /\ pexit' = pexit + 1
    /\ Teardown(deregistered)
    /\ upc' = "idle"
    /\ raised' = IF raises THEN "aexit:raised" ELSE "none"
    /\ UNCHANGED <<behaviors, notifier, undelivered, init_gen, init_specs,
                   supports_reset, ctx, uheld, penter, resets, prev_fields, replaced>>
    /\ UNCHANGED <<waiters, declared, implement_timeout, hook_obj>>
    /\ UNCHANGED <<inner, logging_setup, clients>>

-----------------------------------------------------------------------------
(* reset *)

\* faulty variant of reset_allowed: the state of the protocol is not checked
reset_allowed_always == TRUE

\* ClientInitTaskWrapper.reset: the protocol has to be in its end state
reset_allowed == finished

\* faulty variant of cleared: only the required behaviors are cleared
cleared_required_only(bmap) ==
    [k \in AllKinds |->
        IF bmap[k] = NoInst \/ k \notin Range(required_behaviors) THEN bmap[k]
        ELSE [f \in AllFields |-> IF f \in Range(Fields(k)) THEN None ELSE bmap[k][f]]]

\* ClientInitTaskWrapper.reset: setattr(client[behavior], field.name, None) for every
\* key of _behaviors and every field of that key
cleared(bmap) ==
    [k \in AllKinds |->
        IF bmap[k] = NoInst THEN NoInst
        ELSE [f \in AllFields |-> IF f \in Range(Fields(k)) THEN None ELSE bmap[k][f]]]

SetattrCalls(bmap) ==
    Cardinality({p \in AllKinds \X AllFields :
                    bmap[p[1]] # NoInst /\ p[2] \in Range(Fields(p[1]))})

\* faulty variant of restored: the initial specs are not written back
restored_nothing(current, specs) == current

\* the message fields after "for name, value in self._init_specs.items(): setattr(...)"
restored(current, specs) == specs

\* faulty variant of set_task: the wrapper keeps the task it has
set_task_keeps(tasks) == tasks

\* ClientInitTaskWrapper._set_task: a new task is created and becomes the wrapped one
\* (the last of the sequence)
set_task(tasks) == Append(tasks, "new")

\* "stack = self.task_nursery.pop_all()" and, with the new nursery,
\* "await self.task_nursery.enter_async_context(stack)" if the sentinel is dead: the
\* number of tasks in flight that the new nursery holds through the entered stack
entered_stack(alive, in_flight) == IF alive THEN 0 ELSE in_flight

\* await client.reset(), a call of the application task; "supported" tells whether
\* protocol.state.set(None) is a state change the protocol defines (it raises
\* ValueError if not)
\* the nursery is looked at, and replaced if its sentinel is dead, before
\* ClientInitTaskWrapper.reset checks the state of the protocol
Reset(supported) ==
    /\ AppRuns
    /\ nursery_alive' = TRUE
    /\ IF ~reset_allowed
       THEN /\ raised' = "reset:ValueError"
            /\ migrated' = IF nursery_alive THEN migrated
                           ELSE entered_stack(nursery_alive, notify_tasks)
            /\ UNCHANGED <<behaviors, notifier, notify_tasks, undelivered, init_gen,
                           init_tasks, ppc, relay, hooklog, fields, resets, prev_fields,
                           supports_reset>>
       ELSE /\ resets < MaxResets
            /\ migrated' = entered_stack(nursery_alive, notify_tasks)
            /\ supports_reset \in {"unknown", supported}
            /\ supports_reset' = supported
            /\ behaviors' = cleared(behaviors)
            /\ Notified(SetattrCalls(behaviors))
            /\ init_tasks' = set_task(Collected(init_tasks, Awaited))
            /\ init_gen' = Len(init_tasks')
            /\ ppc' = IF supported = "yes" THEN "not_started" ELSE ppc
            /\ hooklog' = IF supported = "yes" THEN <<>> ELSE hooklog
            /\ relay' = IF supported = "yes" THEN "none" ELSE relay
            /\ fields' = restored(fields, init_specs)
            /\ resets' = resets + 1
            /\ prev_fields' = fields
            /\ raised' = "none"
    /\ UNCHANGED <<init_specs, ctx, upc, uheld, penter, pexit, replaced>>
    /\ UNCHANGED <<waiters, declared, implement_timeout, hook_obj>>
    /\ UNCHANGED <<inner, logging_setup, clients>>

-----------------------------------------------------------------------------

Next ==
    \/ \E k \in Declared : \E f \in Range(Fields(k)) : \E v \in {None, Val} :
          SlotWrite(k, f, v)
    \/ \E v \in Assignable : SetItem(Services, v)
    \/ Deliver
    \/ \E g \in 1..(MaxResets + 1) : InitTaskStep(g)
    \/ RunStep
    \/ RegistrationDone
    \/ \E deregistered \in BOOLEAN : RegistrationFails(deregistered)
    \/ \E deregistered \in BOOLEAN : HookFails(deregistered)
    \/ \E deregistered \in BOOLEAN : ProtocolStop(deregistered)
    \/ AwaitClient
    \/ AwaitResume
    \/ ScopeEnter
    \/ \E deregistered \in BOOLEAN : ScopeResume(deregistered)
    \/ \E raises, deregistered \in BOOLEAN : ScopeExit(raises, deregistered)
    \/ \E supported \in {"yes", "no"} : Reset(supported)

Spec == Init /\ [][Next]_vars

-----------------------------------------------------------------------------
(* Waits of further tasks: on the client and on implements of the required kinds *)

WaitKinds == {"client", "client_timed", "implements", "implements_timed"}
WaiterFree == {"idle", "done", "timeout", "cancelled", "failed"}

\* faulty variant of awaits_shared_task: implements(...) waits for the task wrapped
\* by _init as well
awaits_shared_task_every_wait(kind) == kind \in WaitKinds

\* the wait suspends in the task wrapped by _init itself (UbiiClient.__await__ returns
\* the iterator of that task); implements(...) returns an awaitable_predicate of its
\* own for every call
awaits_shared_task(kind) == kind \in {"client", "client_timed"}

Timed(kind) == kind \in {"client_timed", "implements_timed"}

Begun(w, kind) ==
    [waiters EXCEPT ![w] = [@ EXCEPT !.kind = kind,
                                     !.st = IF awaits_shared_task(kind) THEN "awaiting"
                                            ELSE "new",
                                     !.held = IF awaits_shared_task(kind) THEN init_gen
                                              ELSE 0]]

\* faulty variant of WAwait: every await waits for a task of its own
WAwait_own_task(w, timed) ==
    /\ waiters[w].st \in WaiterFree
    /\ StartIfNeeded
    /\ init_tasks' = Append(init_tasks, "new")
    /\ waiters' = [waiters EXCEPT ![w] =
                      [@ EXCEPT !.kind = IF timed THEN "client_timed" ELSE "client",
                                !.st = "awaiting",
                                !.held = Len(init_tasks) + 1]]
    /\ UNCHANGED <<declared, implement_timeout, hook_obj, migrated>>
    /\ UNCHANGED <<inner, logging_setup, clients>>
    /\ UNCHANGED <<raised, behaviors, notifier, notify_tasks, undelivered,
                   nursery_alive, init_gen, fields, init_specs, relay, supports_reset,
                   ctx, upc, uheld, penter, pexit, resets, prev_fields, replaced>>

\* a task begins "await client" or "await asyncio.wait_for(client, t)":
\* UbiiClient.__await__
WAwait(w, timed) ==
    /\ waiters[w].st \in WaiterFree
    /\ StartIfNeeded
    /\ waiters' = Begun(w, IF timed THEN "client_timed" ELSE "client")
    /\ UNCHANGED <<declared, implement_timeout, hook_obj, migrated>>
    /\ UNCHANGED <<inner, logging_setup, clients>>
    /\ UNCHANGED <<raised, behaviors, notifier, notify_tasks, undelivered,
                   nursery_alive, init_gen, init_tasks, fields, init_specs, relay,
                   supports_reset, ctx, upc, uheld, penter, pexit, resets, prev_fields,
                   replaced>>

\* a task begins "await client.implements(*required_behaviors, timeout=t)"
WImplements(w) ==
    /\ waiters[w].st \in WaiterFree
    /\ waiters' = Begun(w, "implements_timed")
    /\ UNCHANGED <<declared, implement_timeout, hook_obj, migrated>>
    /\ UNCHANGED <<inner, logging_setup, clients>>
    /\ UNCHANGED <<raised, behaviors, notifier, notify_tasks, undelivered,
                   nursery_alive, init_gen, init_tasks, fields, init_specs, ppc, relay,
                   hooklog, supports_reset, ctx, upc, uheld, penter, pexit, resets,
                   prev_fields, replaced>>

\* the awaitable_predicate of an implements wait checks the predicate, when the wait
\* begins and after every wake-up
WStep(w) ==
    /\ ~awaits_shared_task(waiters[w].kind)
    /\ waiters[w].st \in {"new", "notified"}
    /\ waiters' = [waiters EXCEPT ![w].st = AfterCheck(implements(declared.required))]
    /\ UNCHANGED <<declared, implement_timeout, hook_obj, migrated>>
    /\ UNCHANGED <<inner, logging_setup, clients>>
    /\ UNCHANGED <<raised, behaviors, notifier, notify_tasks, undelivered,
                   nursery_alive, init_gen, init_tasks, fields, init_specs, ppc, relay,
                   hooklog, supports_reset, ctx, upc, uheld, penter, pexit, resets,
                   prev_fields, replaced>>

\* the task wrapped by _init has finished: the await of it returns or raises
WResume(w) ==
    /\ awaits_shared_task(waiters[w].kind)
    /\ waiters[w].st = "awaiting"
    /\ init_tasks[waiters[w].held] \in Terminal
    /\ waiters' = [waiters EXCEPT ![w].st = init_tasks[waiters[w].held]]
    /\ UNCHANGED <<declared, implement_timeout, hook_obj, migrated>>
    /\ UNCHANGED <<inner, logging_setup, clients>>
    /\ UNCHANGED <<raised, behaviors, notifier, notify_tasks, undelivered,
                   nursery_alive, init_gen, init_tasks, fields, init_specs, ppc, relay,
                   hooklog, supports_reset, ctx, upc, uheld, penter, pexit, resets,
                   prev_fields, replaced>>

WaitPending(w) ==
    IF awaits_shared_task(waiters[w].kind)
    THEN waiters[w].st = "awaiting" /\ init_tasks[waiters[w].held] \in Pending
    ELSE waiters[w].st \in Pending

\* the deadline of a wait passes while the wait is pending: the waiting task gets
\* TimeoutError (its st becomes "timeout"); the wait is cancelled, and with it the
\* task it is suspended in
WTimeout(w) ==
    /\ Timed(waiters[w].kind)
    /\ WaitPending(w)
    /\ waiters' = [waiters EXCEPT ![w] =
                      [@ EXCEPT !.st = "timeout",
                                !.timedout = @ \/ waiters[w].kind = "implements_timed"]]
    /\ init_tasks' = IF awaits_shared_task(waiters[w].kind)
                     THEN [init_tasks EXCEPT ![waiters[w].held] = "cancelled"]
                     ELSE init_tasks
    /\ UNCHANGED <<declared, implement_timeout, hook_obj, migrated>>
    /\ UNCHANGED <<inner, logging_setup, clients>>
    /\ UNCHANGED <<raised, behaviors, notifier, notify_tasks, undelivered,
                   nursery_alive, init_gen, fields, init_specs, ppc, relay, hooklog,
                   supports_reset, ctx, upc, uheld, penter, pexit, resets, prev_fields,
                   replaced>>

NextWaiters ==
    \/ \E k \in Range(required_behaviors) : \E f \in Range(Fields(k)) :
          SlotWrite(k, f, Val)
    \/ Deliver
    \/ \E g \in 1..(MaxResets + 1) : InitTaskStep(g)
    \/ RunStep
    \/ RegistrationDone
    \/ RegistrationFails(TRUE)
    \/ ProtocolStop(TRUE)
    \/ \E w \in Waiters : \E timed \in BOOLEAN : WAwait(w, timed)
    \/ \E w \in Waiters : WImplements(w)
    \/ \E w \in Waiters : WStep(w)
    \/ \E w \in Waiters : WResume(w)
    \/ \E w \in Waiters : WTimeout(w)

SpecWaiters == Init /\ [][NextWaiters]_vars

-----------------------------------------------------------------------------
(* UbiiClient.IMPLEMENT_TIMEOUT and implements(...) called without a timeout *)

\* a number of seconds
Seconds == "0.1"

\* the default of the parameter "timeout" of implements: the expression
\* IMPLEMENT_TIMEOUT is evaluated once, when the def statement runs in the class
\* body, where IMPLEMENT_TIMEOUT is None
default_timeout == None

\* UbiiClient.IMPLEMENT_TIMEOUT = value
SetImplementTimeout(value) ==
    /\ implement_timeout # value
    /\ implement_timeout' = value
    /\ UNCHANGED <<behaviors, notifier, notify_tasks, undelivered, nursery_alive,
                   init_gen, init_tasks, fields, init_specs, ppc, relay, hooklog,
                   supports_reset, ctx, upc, uheld, penter, pexit, resets, prev_fields,
                   replaced, waiters, declared, hook_obj,
                   inner, logging_setup, clients, migrated, raised>>

\* a task begins "await client.implements(*required_behaviors)": the wait gets the
\* default of the parameter as its timeout
WImplementsDefault(w) ==
    /\ waiters[w].st \in WaiterFree
    /\ waiters' = Begun(w, IF default_timeout = None THEN "implements"
                           ELSE "implements_timed")
    /\ UNCHANGED <<behaviors, notifier, notify_tasks, undelivered, nursery_alive,
                   init_gen, init_tasks, fields, init_specs, ppc, relay, hooklog,
                   supports_reset, ctx, upc, uheld, penter, pexit, resets, prev_fields,
                   replaced, declared, implement_timeout, hook_obj,
                   inner, logging_setup, clients, migrated, raised>>

NextTimeout ==
    \/ \E value \in {None, Seconds} : SetImplementTimeout(value)
    \/ \E w \in Waiters : WImplementsDefault(w)
    \/ \E w \in Waiters : WImplements(w)
    \/ \E w \in Waiters : WStep(w)
    \/ \E w \in Waiters : WTimeout(w)
    \/ \E k \in Range(required_behaviors) : \E f \in Range(Fields(k)) :
          \E v \in {None, Val} : SlotWrite(k, f, v)
    \/ Deliver

SpecTimeout == Init /\ [][NextTimeout]_vars

-----------------------------------------------------------------------------
(* UbiiClient.__init__ with the behaviors it is given *)

NotADataclass == "not a dataclass"  \* a type that is no dataclass

\* dataclasses.is_dataclass(b) for a type b
is_dataclass_type(b) == b \in AllKinds

\* the required_behaviors and optional_behaviors the model constructs clients with
ConstructorArgs ==
    [required : {required_behaviors, <<Services>>, <<Services, NotADataclass>>,
                 <<NotADataclass>>},
     optional : {optional_behaviors, <<>>, <<NotADataclass>>,
                 <<Register, NotADataclass>>}]

\* itertools.chain(self._required_behaviors, self._optional_behaviors)
chain(args) == args.required \o args.optional

\* {kls: self._patch_behavior(kls)() for kls in behaviors}
patched(kinds) ==
    [k \in AllKinds |-> IF k \in Range(kinds) THEN Instance(k, None) ELSE NoInst]

\* the object before __init__ has run: nothing of the client exists
Unconstructed == init_tasks = <<>> /\ raised = "none"

InitConstruct ==
    /\ declared \in ConstructorArgs
    /\ behaviors = [k \in AllKinds |-> NoInst]
    /\ notifier = FALSE
    /\ notify_tasks = 0
    /\ undelivered = FALSE
    /\ nursery_alive = TRUE
    /\ init_gen = 0
    /\ init_tasks = <<>>
    /\ fields = [id |-> "", state |-> "UNAVAILABLE"]
    /\ init_specs = [id |-> "", state |-> "UNAVAILABLE"]
    /\ ppc = "not_started"
    /\ relay = "none"
    /\ hooklog = <<>>
    /\ supports_reset = "unknown"
    /\ ctx = "fresh"
    /\ upc = "idle"
    /\ uheld = 0
    /\ penter = 0
    /\ pexit = 0
    /\ resets = 0
    /\ prev_fields = [id |-> "", state |-> "UNAVAILABLE"]
    /\ replaced = 0
    /\ waiters = [w \in Waiters |-> IdleWaiter]
    /\ implement_timeout = None
    /\ hook_obj = NewHook
    /\ inner = NewInner
    /\ logging_setup = NotImported
    /\ clients = <<>>
    /\ migrated = 0
    /\ raised = "none"

\* faulty variant of Construct: the behaviors are checked after the proxies and the
\* wrapped task were created
Construct_checks_late ==
    /\ Unconstructed
    /\ LET kinds == SelectSeq(chain(declared), is_dataclass_type)
           r == notify_times(Len(FieldPairs(kinds)), FALSE, 0)
       IN  /\ behaviors' = patched(kinds)
           /\ notifier' = r[1]
           /\ notify_tasks' = r[2]
           /\ undelivered' = (kinds # <<>>)
    /\ init_gen' = 1
    /\ init_tasks' = <<"new">>
    /\ raised' = IF \A b \in Range(chain(declared)) : is_dataclass_type(b) THEN "none"
                 ELSE "init:ValueError"
    /\ UNCHANGED <<nursery_alive, fields, init_specs, ppc, relay, hooklog,
                   supports_reset, ctx, upc, uheld, penter, pexit, resets, prev_fields,
                   replaced, waiters, declared, implement_timeout, hook_obj,
                   inner, logging_setup, clients, migrated>>

\* UbiiClient.__init__: the behaviors are checked before anything of the client is
\* created; then the proxies are created (every field assigned through the patched
\* __setattr__) and the wrapped task
Construct ==
    /\ Unconstructed
    /\ IF ~(\A b \in Range(chain(declared)) : is_dataclass_type(b))
       THEN /\ raised' = "init:ValueError"
            /\ UNCHANGED <<behaviors, notifier, notify_tasks, undelivered, init_gen,
                           init_tasks>>
       ELSE /\ behaviors' = patched(chain(declared))
            /\ LET r == notify_times(Len(FieldPairs(chain(declared))), FALSE, 0)
               IN  notifier' = r[1] /\ notify_tasks' = r[2]
            /\ undelivered' = TRUE
            /\ init_gen' = 1
            /\ init_tasks' = <<"new">>
            /\ raised' = "none"
    /\ UNCHANGED <<nursery_alive, fields, init_specs, ppc, relay, hooklog,
                   supports_reset, ctx, upc, uheld, penter, pexit, resets, prev_fields,
                   replaced, waiters, declared, implement_timeout, hook_obj,
                   inner, logging_setup, clients, migrated>>

NextConstruct ==
    \/ Construct
    \/ \E k \in AllKinds : \E f \in Range(Fields(k)) : \E v \in {None, Val} :
          SlotWrite(k, f, v)
    \/ Deliver
    \/ \E g \in 1..(MaxResets + 1) : InitTaskStep(g)

SpecConstruct == InitConstruct /\ [][NextConstruct]_vars

-----------------------------------------------------------------------------
(* A util.hook that decorators are registered on and that is called *)

\* the decorators the model registers
Decorators == {"a", "b"}

\* the number of decorators registered on the hook
RECURSIVE registered(_, _)
registered(h, insts) ==
    IF insts = {} THEN Len(h.decorators)
    ELSE LET i == CHOOSE j \in insts : TRUE
         IN  Len(Get(h.instance_decorators, i, <<>>)) + registered(h, insts \ {i})

\* hook.register_decorator(decorator), or hook.register_decorator(decorator, instance)
RegisterDecorator(decorator, instance) ==
    /\ registered(hook_obj, Instances) < MaxDecorators
    /\ hook_obj' = register_decorator(hook_obj, decorator, instance)
    /\ UNCHANGED <<behaviors, notifier, notify_tasks, undelivered, nursery_alive,
                   init_gen, init_tasks, fields, init_specs, ppc, relay, hooklog,
                   supports_reset, ctx, upc, uheld, penter, pexit, resets, prev_fields,
                   replaced, waiters, declared, implement_timeout, migrated, inner,
                   logging_setup, clients, raised>>

\* hook(...), or instance.hook(...)
CallHook(instance) ==
    /\ hook_obj' = call(hook_obj, instance)
    /\ UNCHANGED <<behaviors, notifier, notify_tasks, undelivered, nursery_alive,
                   init_gen, init_tasks, fields, init_specs, ppc, relay, hooklog,
                   supports_reset, ctx, upc, uheld, penter, pexit, resets, prev_fields,
                   replaced, waiters, declared, implement_timeout, migrated, inner,
                   logging_setup, clients, raised>>

NextHook ==
    \/ \E d \in Decorators : \E instance \in Instances \cup {None} :
           RegisterDecorator(d, instance)
    \/ \E instance \in Instances \cup {None} : CallHook(instance)

SpecHook == Init /\ [][NextHook]_vars

-----------------------------------------------------------------------------
(* Calls of a coroutine function decorated with util.exc_handler_decorator(handler) *)

\* a task calls the decorated function and runs it up to its first await or its end
InnerCall(fun, handler) ==
    /\ inner.pc \in {"idle", "returned", "raised"}
    /\ inner' = inner_call(fun, handler)
    /\ UNCHANGED <<behaviors, notifier, notify_tasks, undelivered, nursery_alive,
                   init_gen, init_tasks, fields, init_specs, ppc, relay, hooklog,
                   supports_reset, ctx, upc, uheld, penter, pexit, resets, prev_fields,
                   replaced, waiters, declared, implement_timeout, hook_obj, migrated,
                   logging_setup, clients, raised>>

\* the future or coroutine that fun returned finishes, raises, or the task is
\* cancelled while it awaits it
InnerResultAwaited(outcome) ==
    /\ inner.pc = "await_result"
    /\ inner' = result_awaited(inner, outcome)
    /\ UNCHANGED <<behaviors, notifier, notify_tasks, undelivered, nursery_alive,
                   init_gen, init_tasks, fields, init_specs, ppc, relay, hooklog,
                   supports_reset, ctx, upc, uheld, penter, pexit, resets, prev_fields,
                   replaced, waiters, declared, implement_timeout, hook_obj, migrated,
                   logging_setup, clients, raised>>

\* the future or coroutine that the handler returned finishes, raises, or the task is
\* cancelled while it awaits it
InnerHandlerAwaited(outcome) ==
    /\ inner.pc = "await_handler"
    /\ inner' = handler_awaited(inner, outcome)
    /\ UNCHANGED <<behaviors, notifier, notify_tasks, undelivered, nursery_alive,
                   init_gen, init_tasks, fields, init_specs, ppc, relay, hooklog,
                   supports_reset, ctx, upc, uheld, penter, pexit, resets, prev_fields,
                   replaced, waiters, declared, implement_timeout, hook_obj, migrated,
                   logging_setup, clients, raised>>

NextHandler ==
    \/ \E fun, handler \in Behaviours : InnerCall(fun, handler)
    \/ \E outcome \in Outcomes : InnerResultAwaited(outcome)
    \/ \E outcome \in Outcomes : InnerHandlerAwaited(outcome)

SpecHandler == Init /\ [][NextHandler]_vars

-----------------------------------------------------------------------------
(* A task nursery whose sentinel ends while the protocol is not in its end state *)

\* the sentinel task of the nursery ends (it is cancelled, or it fails) during a run
\* or before one: the nursery is dead, the state of the protocol is what it was
SentinelDies ==
    /\ nursery_alive
    /\ ~finished
    /\ nursery_alive' = FALSE
    /\ raised' = "none"
    /\ UNCHANGED <<behaviors, notifier, notify_tasks, undelivered, init_gen, init_tasks,
                   fields, init_specs, ppc, relay, hooklog, supports_reset, ctx, upc,
                   uheld, penter, pexit, resets, prev_fields, replaced, waiters,
                   declared, implement_timeout, hook_obj, migrated, inner,
                   logging_setup, clients>>

NextDeadScope ==
    \/ SentinelDies
    \/ \E supported \in {"yes", "no"} : Reset(supported)
    \/ \E k \in Declared : \E f \in Range(Fields(k)) : \E v \in {None, Val} :
          SlotWrite(k, f, v)
    \/ Deliver
    \/ \E g \in 1..(MaxResets + 1) : InitTaskStep(g)
    \/ AwaitClient
    \/ AwaitResume
    \/ RunStep
    \/ RegistrationDone
    \/ ProtocolStop(TRUE)

SpecDeadScope == Init /\ [][NextDeadScope]_vars

-----------------------------------------------------------------------------
(* client[key] = value for a key the client declares and for one it does not *)

NextKeys ==
    \/ \E key \in {Services, RunProcessingModules} : \E v \in Assignable :
          SetItem(key, v)
    \/ \E k \in Declared : \E f \in Range(Fields(k)) : \E v \in {None, Val} :
          SlotWrite(k, f, v)
    \/ Deliver
    \/ AwaitClient
    \/ AwaitResume
    \/ ProtocolStop(TRUE)
    \/ \E supported \in {"yes", "no"} : Reset(supported)

SpecKeys == Init /\ [][NextKeys]_vars

-----------------------------------------------------------------------------
(* Two clients that run in the same event loop *)

\* the _notify task of client c runs: notify_all() on its condition wakes the tasks
\* that wait on that condition, and the marker of c is cleared
signal_delivered(cs, c) ==
    [d \in Clients |->
        LET woken == IF change_specs(d) = change_specs(c)
                     THEN [cs[d] EXCEPT !.init = Wake(@)] ELSE cs[d]
        IN  IF d = c THEN [woken EXCEPT !.notifier = FALSE, !.notify_tasks = @ - 1]
            ELSE woken]

\* two clients are constructed with the same required and optional behaviors
ConstructClients ==
    /\ clients = <<>>
    /\ clients' = [c \in Clients |-> NewClient]
    /\ UNCHANGED <<behaviors, notifier, notify_tasks, undelivered, nursery_alive,
                   init_gen, init_tasks, fields, init_specs, ppc, relay, hooklog,
                   supports_reset, ctx, upc, uheld, penter, pexit, resets, prev_fields,
                   replaced, waiters, declared, implement_timeout, hook_obj, migrated,
                   inner, logging_setup, raised>>

\* a slot of client c is written through its proxy
ClientSlotWrite(c, key, name, value) ==
    /\ c \in DOMAIN clients
    /\ clients' = slot_written(clients, c, key, name, value)
    /\ UNCHANGED <<behaviors, notifier, notify_tasks, undelivered, nursery_alive,
                   init_gen, init_tasks, fields, init_specs, ppc, relay, hooklog,
                   supports_reset, ctx, upc, uheld, penter, pexit, resets, prev_fields,
                   replaced, waiters, declared, implement_timeout, hook_obj, migrated,
                   inner, logging_setup, raised>>

\* the event loop runs the _notify task of client c
ClientDeliver(c) ==
    /\ c \in DOMAIN clients
    /\ clients[c].notify_tasks > 0
    /\ clients' = signal_delivered(clients, c)
    /\ UNCHANGED <<behaviors, notifier, notify_tasks, undelivered, nursery_alive,
                   init_gen, init_tasks, fields, init_specs, ppc, relay, hooklog,
                   supports_reset, ctx, upc, uheld, penter, pexit, resets, prev_fields,
                   replaced, waiters, declared, implement_timeout, hook_obj, migrated,
                   inner, logging_setup, raised>>

\* the task wrapped by _init of client c runs up to its next suspension: it checks
\* the predicate when it starts and after every wake-up
ClientInitTaskStep(c) ==
    /\ c \in DOMAIN clients
    /\ clients[c].init \in {"new", "notified"}
    /\ clients' = [clients EXCEPT ![c].init =
                      AfterCheck(fields_not_none(clients[c].behaviors, required_behaviors))]
    /\ UNCHANGED <<behaviors, notifier, notify_tasks, undelivered, nursery_alive,
                   init_gen, init_tasks, fields, init_specs, ppc, relay, hooklog,
                   supports_reset, ctx, upc, uheld, penter, pexit, resets, prev_fields,
                   replaced, waiters, declared, implement_timeout, hook_obj, migrated,
                   inner, logging_setup, raised>>

NextClients ==
    \/ ConstructClients
    \/ \E c \in Clients : \E k \in Declared : \E f \in Range(Fields(k)) :
          \E v \in {None, Val} : ClientSlotWrite(c, k, f, v)
    \/ \E c \in Clients : ClientDeliver(c)
    \/ \E c \in Clients : ClientInitTaskStep(c)

SpecClients == Init /\ [][NextClients]_vars

-----------------------------------------------------------------------------
(* Calls of ubii.interact.logging.logging_setup *)

\* a call ended with the outcome
Called(outcome) ==
    /\ logging_setup' = outcome.setup
    /\ raised' = IF outcome.exc = "none" THEN "none" ELSE "logging:" \o outcome.exc

\* "import ubii.interact.logging": the module creates logging_setup
ImportLogging ==
    /\ ~logging_setup.imported
    /\ logging_setup' = NewLoggingSetup
    /\ raised' = "none"
    /\ UNCHANGED <<behaviors, notifier, notify_tasks, undelivered, nursery_alive,
                   init_gen, init_tasks, fields, init_specs, ppc, relay, hooklog,
                   supports_reset, ctx, upc, uheld, penter, pexit, resets, prev_fields,
                   replaced, waiters, declared, implement_timeout, hook_obj, migrated,
                   inner, clients>>

\* logging_setup.change(config, verbosity)
Change(config, verbosity) ==
    /\ logging_setup.imported
    /\ Len(logging_setup.configs) < MaxConfigs
    /\ Called(change(logging_setup, config, verbosity))
    /\ UNCHANGED <<behaviors, notifier, notify_tasks, undelivered, nursery_alive,
                   init_gen, init_tasks, fields, init_specs, ppc, relay, hooklog,
                   supports_reset, ctx, upc, uheld, penter, pexit, resets, prev_fields,
                   replaced, waiters, declared, implement_timeout, hook_obj, migrated,
                   inner, clients>>

\* logging_setup.reset()
ResetLogging ==
    /\ logging_setup.imported
    /\ Called(reset(logging_setup))
    /\ UNCHANGED <<behaviors, notifier, notify_tasks, undelivered, nursery_alive,
                   init_gen, init_tasks, fields, init_specs, ppc, relay, hooklog,
                   supports_reset, ctx, upc, uheld, penter, pexit, resets, prev_fields,
                   replaced, waiters, declared, implement_timeout, hook_obj, migrated,
                   inner, clients>>

\* "with logging_setup:" or "with logging_setup.change(...):" is entered:
\* __enter__ returns self
Enter ==
    /\ logging_setup.imported
    /\ logging_setup.depth < MaxNesting
    /\ logging_setup' = [logging_setup EXCEPT !.depth = @ + 1]
    /\ raised' = "none"
    /\ UNCHANGED <<behaviors, notifier, notify_tasks, undelivered, nursery_alive,
                   init_gen, init_tasks, fields, init_specs, ppc, relay, hooklog,
                   supports_reset, ctx, upc, uheld, penter, pexit, resets, prev_fields,
                   replaced, waiters, declared, implement_timeout, hook_obj, migrated,
                   inner, clients>>

\* the with-block is left, with an exception of its body or without one
Exit(raises) ==
    /\ logging_setup.imported
    /\ logging_setup.depth > 0
    /\ Called(exit([logging_setup EXCEPT !.depth = @ - 1], raises))
    /\ UNCHANGED <<behaviors, notifier, notify_tasks, undelivered, nursery_alive,
                   init_gen, init_tasks, fields, init_specs, ppc, relay, hooklog,
                   supports_reset, ctx, upc, uheld, penter, pexit, resets, prev_fields,
                   replaced, waiters, declared, implement_timeout, hook_obj, migrated,
                   inner, clients>>

NextLogging ==
    \/ ImportLogging
    \/ \E config \in ConfigArgs : \E verbosity \in VerbosityArgs :
          Change(config, verbosity)
    \/ ResetLogging
    \/ Enter
    \/ \E raises \in BOOLEAN : Exit(raises)

SpecLogging == Init /\ [][NextLogging]_vars

-----------------------------------------------------------------------------
(* Properties *)

NonEmpty(value) == value \notin {None, Missing, NoKey}

\* every slot of kind k, read through the entry of key k, holds a value
KindFilled(bmap, k) == \A f \in Range(Fields(k)) : NonEmpty(bmap[k][f])

RequiredSlotsFilled(bmap) == \A k \in Range(required_behaviors) : KindFilled(bmap, k)

Usable == implements(required_behaviors) = "True"

\* C1: in every reachable state the client is usable (implements of the required
\* kinds is true) if and only if every slot of every required capability is
\* non-empty, and the answer is the same whatever the slots of the optional
\* capabilities hold
C1_UsableIffRequiredFilled ==
    /\ Usable <=> RequiredSlotsFilled(behaviors)
    /\ \A o \in Range(optional_behaviors) : \A v \in {None, Val} :
          fields_not_none([behaviors EXCEPT ![o] = Instance(o, v)], required_behaviors)
              = implements(required_behaviors)

\* the client is usable, the task behind "await client" has resolved, and an optional
\* capability is not implemented
C1_Witness ==
    /\ Usable
    /\ init_tasks[init_gen] = "done"
    /\ behaviors[Register]["register"] = None

\* C2: the instance of every declared kind K made at construction has all its slots
\* empty and implements(K) is false; in every later state implements(K) is true
\* exactly if each slot of K holds a non-empty value, it is false while a slot of the
\* instance is empty, and it turns true only in a step that fills an empty slot
C2_Fresh ==
    \A k \in Declared :
        /\ \A f \in Range(Fields(k)) : behaviors[k][f] = None
        /\ implements(<<k>>) = "False"

C2_Step ==
    \A k \in Declared :
        behaviors'[k] # behaviors[k] =>
        /\ (fields_not_none(behaviors', <<k>>) = "True") <=> KindFilled(behaviors', k)
        /\ (\E f \in Range(Fields(k)) : behaviors'[k][f] = None)
              => fields_not_none(behaviors', <<k>>) = "False"
        /\ (implements(<<k>>) # "True" /\ fields_not_none(behaviors', <<k>>) = "True")
              => \E f \in Range(Fields(k)) :
                    ~NonEmpty(behaviors[k][f]) /\ NonEmpty(behaviors'[k][f])

C2_FalseUntilEverySlotWritten == C2_Fresh /\ [][C2_Step]_vars

\* a kind with two slots is implemented, slot by slot, without any replacement of
\* the instance made at construction
C2_Witness ==
    /\ implements(<<Register>>) = "True"
    /\ replaced = 0
    /\ resets = 0

\* C3: no missed wake-up. While a slot write has not been followed by a notify_all
\* and a task waits on the condition, a task that will call notify_all is scheduled
C3_NoMissedWakeup ==
    (undelivered /\ \E g \in DOMAIN init_tasks : init_tasks[g] = "waiting")
        => notify_tasks > 0

\* C4: signals are coalesced. At most one _notify task is pending at any time, and
\* while one is pending the marker that turns notify() into a no-op is set
C4_AtMostOneSignalPending ==
    /\ notify_tasks <= 1
    /\ notify_tasks = 1 => notifier

\* a signal has been delivered (a waiting task was woken by it) and the next one is
\* pending
C4_Witness ==
    /\ \E g \in DOMAIN init_tasks : init_tasks[g] = "notified"
    /\ notify_tasks = 1
    /\ undelivered

\* C5: reset() called while the protocol is not in its end state raises ValueError
\* and leaves every capability slot as it was
C5_ResetRefusedUnlessFinished ==
    [][(~finished /\ \E supported \in {"yes", "no"} : Reset(supported))
          => (raised' = "reset:ValueError" /\ behaviors' = behaviors)]_vars

\* reset() was refused while the run was going on and a slot was filled
C5_Witness ==
    /\ raised = "reset:ValueError"
    /\ was_started
    /\ ~finished
    /\ behaviors[Services]["service_map"] = Val

DeclaredSlotsEmpty(bmap) ==
    \A k \in Declared : \A f \in Range(Fields(k)) : bmap[k][f] = None

Hooks == <<"on_start", "on_create", "on_registration", "on_connect", "on_stop">>

\* the hooks of a run: on_start, on_create, on_registration, on_connect up to some
\* point, then possibly on_stop
InRunOrder(log) ==
    \E n \in 0..4 : \/ log = SubSeq(Hooks, 1, n)
                    \/ log = Append(SubSeq(Hooks, 1, n), "on_stop")

ResetWhileFinished == finished /\ \E supported \in {"yes", "no"} : Reset(supported)

C7_ResetRestoresInitialSpecs ==
    [][ResetWhileFinished
          => /\ fields' = init_specs
             /\ fields'.id = ""
             /\ fields'.state = "UNAVAILABLE"]_vars

\* the client still had the id the broker assigned when it was reset
C7_Witness ==
    /\ resets >= 1
    /\ prev_fields.id = BrokerId
    /\ fields.id = ""
    /\ ppc = "not_started"

BodyBegins == upc # "body" /\ upc' = "body"

C9_ReleasedOnEveryExit ==
    /\ upc \in {"awaiting", "body"} => penter = pexit + 1
    /\ upc \in {"idle", "awaiting_plain"} => pexit = penter
    /\ (pexit > 0 /\ resets = 0) => finished

\* the wait inside the entry failed and the protocol was torn down
C9_Witness ==
    /\ raised = "aenter:raised"
    /\ penter = 1
    /\ pexit = 1
    /\ finished

\* C10: after reset() completed and returned the protocol to "not started", entering
\* the client again as a scoped resource does not fail
C10_ScopedEntryAfterReset ==
    (resets >= 1 /\ supports_reset = "yes") => raised # "aenter:AttributeError"

AppAwaits == upc = "idle" /\ upc' \in {"awaiting", "awaiting_plain"}

TimesOut == \E deregistered \in BOOLEAN : RegistrationFails(deregistered)

\* C12: when the 5 s of on_registration pass while the wait-until-usable task is
\* pending, the run ends with RuntimeError and is not continued, the status is not
\* ACTIVE, no later hook but on_stop has run, and the nursery is closed: its tasks
\* are cancelled and the registration is released; no other step raises that error
C12_TimeoutIsFatal ==
    [][/\ (TimesOut /\ init_tasks[init_gen] \in Pending)
            => /\ raised' = "run:RuntimeError"
               /\ finished'
               /\ fields'.state = "UNAVAILABLE"
               /\ hooklog' = <<"on_start", "on_create", "on_registration", "on_stop">>
               /\ ~nursery_alive'
               /\ init_tasks'[init_gen] = "cancelled"
               /\ fields'.id \in {"", fields.id}
       /\ raised' = "run:RuntimeError"
            => (ppc = "await_client" /\ init_tasks[init_gen] \in Pending)]_vars

\* the run was aborted by the timeout while a required slot was empty, and the
\* client was deregistered
C12_Witness ==
    /\ raised = "run:RuntimeError"
    /\ ~RequiredSlotsFilled(behaviors)
    /\ finished
    /\ fields = [id |-> "", state |-> "UNAVAILABLE"]

BecomesActive == fields.state # "ACTIVE" /\ fields'.state = "ACTIVE"

StepIndex(step) == CHOOSE i \in DOMAIN Steps : Steps[i] = step

\* C14: the awaited calls of a run are made strictly in the order of the hooks'
\* code: the position moves from one call to the one written after it, only when
\* the call completed; after a failure (the run ends) no later call is made
C14_StepsInOrder ==
    [][ppc' # ppc
          => \/ ppc = "not_started" /\ ppc' \in {Steps[1], "end"}
             \/ ppc = "end" /\ ppc' = "not_started"
             \/ ppc \in Range(Steps) /\ ppc' = "end"
             \/ /\ ppc \in Range(Steps)
                /\ ppc' \in Range(Steps)
                /\ StepIndex(ppc') = StepIndex(ppc) + 1
                /\ (ppc = "await_client" => init_tasks[init_gen] = "done")]_vars

\* all calls of on_start, on_create, on_registration and on_connect were made
C14_Witness ==
    /\ ppc = "running"
    /\ hooklog = <<"on_start", "on_create", "on_registration", "on_connect">>
    /\ relay = "running"

C17_NoTaskSurvivesClose ==
    [][(nursery_alive /\ ~nursery_alive')
          => /\ \A g \in DOMAIN init_tasks' : init_tasks'[g] \notin Pending
             /\ notify_tasks' = 0
             /\ relay' # "running"]_vars

\* the nursery closed while the relay task ran; it and the wrapped task ended
C17_Witness ==
    /\ ~nursery_alive
    /\ relay = "cancelled"
    /\ init_tasks[init_gen] \in Terminal

\* C20: the instance stored under a capability kind is an instance of that kind: it
\* has every slot of the kind
C20_StoredInstanceHasKeyKind ==
    \A k \in Declared : \A f \in Range(Fields(k)) : behaviors[k][f] # Missing

\* the wait of task w begins, or ends with a timeout, in this step
WaitBegins(w) == waiters'[w].st = "awaiting" /\ waiters[w].st # "awaiting"
WaitTimesOut(w) == waiters'[w].st = "timeout" /\ waiters[w].st # "timeout"

C18_TimeoutOnlyToItsWaiter ==
    [][\A w \in Waiters :
          WaitTimesOut(w)
              => /\ \A v \in Waiters \ {w} : waiters'[v] = waiters[v]
                 /\ init_tasks' = init_tasks
                 /\ ppc' = ppc]_vars

\* C19: as long as a required slot is empty, an implements wait with a deadline does
\* not succeed; its timeout changes nothing but the waiter's own outcome (no slot, no
\* pending signal, no task, no protocol position: usable() is what it was); and a
\* later implements wait of the same task succeeds when it checks with the slots
\* filled
C19_TimeoutHasNoSideEffects ==
    [][\A w \in Waiters :
          waiters[w].kind = "implements_timed"
              => /\ (waiters'[w].st = "done" /\ waiters[w].st # "done") => Usable
                 /\ WaitTimesOut(w)
                      => /\ behaviors' = behaviors
                         /\ Usable' = Usable
                         /\ <<notifier, notify_tasks, undelivered>>'
                                = <<notifier, notify_tasks, undelivered>>
                         /\ init_tasks' = init_tasks
                         /\ <<ppc, hooklog, fields, nursery_alive>>'
                                = <<ppc, hooklog, fields, nursery_alive>>
                         /\ \A v \in Waiters \ {w} : waiters'[v] = waiters[v]
                 /\ ( /\ waiters[w].timedout
                      /\ waiters[w].st \in {"new", "notified"}
                      /\ Usable
                      /\ waiters'[w].st \notin {waiters[w].st, "timeout"} )
                      => waiters'[w].st = "done"]_vars

\* an implements wait of the task timed out with a required slot empty, the slots
\* were filled, and its later implements wait succeeded
C19_Witness ==
    \E w \in Waiters :
        /\ waiters[w].timedout
        /\ waiters[w].kind = "implements_timed"
        /\ waiters[w].st = "done"
        /\ Usable

NothingCreated ==
    /\ behaviors = [k \in AllKinds |-> NoInst]
    /\ init_tasks = <<>>
    /\ notify_tasks = 0
    /\ ~notifier

\* C21: construction fails with ValueError iff one of the required or optional kinds
\* is no dataclass, and after a failed construction no capability instance, no
\* wrapped "wait until usable" task and no _notify task exists
C21_InvalidKindFailsConstruction ==
    [][/\ (Unconstructed /\ vars' # vars)
            => ((raised' = "init:ValueError")
                  <=> (\E b \in Range(declared.required) \cup Range(declared.optional) :
                          ~is_dataclass_type(b)))
       /\ (raised' = "init:ValueError") => NothingCreated']_vars

\* the construction with an optional kind that is no dataclass failed
C21_Witness ==
    /\ raised = "init:ValueError"
    /\ declared = [required |-> required_behaviors, optional |-> <<NotADataclass>>]
    /\ NothingCreated

\* the tuples of kinds that wants and implements are asked about
KindTuples == {<<>>} \cup {<<k>> : k \in AllKinds} \cup (AllKinds \X AllKinds)

C23_SlotsNeverShrink ==
    [][resets' = resets
          => \A k \in Declared : \A f \in Range(Fields(k)) :
                 NonEmpty(behaviors[k][f]) => NonEmpty(behaviors'[k][f])]_vars

\* hook.decorators(instance): the decorators registered for a call through the
\* instance, or through no instance
RegisteredFor(instance) ==
    hook_obj.decorators \o Get(hook_obj.instance_decorators, instance, <<>>)

\* d_n(...d_1(d_0(func))...) for the decorators <<d_0, ..., d_n>>
Nested(ds) == [i \in 1..(Len(ds) + 1) |-> IF i > Len(ds) THEN func ELSE ds[Len(ds) - i + 1]]

\* C24: what a call of the hook evaluates is d_n(...d_1(d_0(func))...) for the
\* decorators d_0 .. d_n registered when it is made, in their order of registration,
\* the most recently registered one outermost
C24_DecoratorsInRegistrationOrder ==
    hook_obj.result # <<>> => hook_obj.result = Nested(RegisteredFor(hook_obj.instance))

C26_DeadScopeTasksAbandoned == migrated = 0

\* C27: a step that writes slots (outside reset) resumes and wakes nobody: every
\* wrapped task, the application task and the protocol run are where they were, and
\* all it does besides the write is to leave one _notify task scheduled; a waiting
\* task is woken only by the step in which a scheduled _notify task runs
C27_WriteOnlySchedulesSignal ==
    [][/\ (behaviors' # behaviors /\ resets' = resets)
            => /\ init_tasks' = init_tasks
               /\ <<upc, uheld, ppc, hooklog>>' = <<upc, uheld, ppc, hooklog>>
               /\ notifier'
               /\ notify_tasks' = IF notifier THEN notify_tasks ELSE notify_tasks + 1
       /\ \A g \in DOMAIN init_tasks :
              (init_tasks[g] = "waiting" /\ init_tasks'[g] = "notified")
                  => /\ behaviors' = behaviors
                     /\ notify_tasks' = notify_tasks - 1
                     /\ ~notifier']_vars

\* every required slot has been written, the _notify task is scheduled, and the
\* wrapped task is still waiting
C27_Witness ==
    /\ Usable
    /\ init_tasks[init_gen] = "waiting"
    /\ notify_tasks = 1
    /\ undelivered

\* C28: a reset() that did not raise leaves a new, not yet run task wrapped by _init
\* and every required slot empty; an await of the client begun afterwards waits for
\* the task wrapped then and returns only when that task is done; and a wrapped task
\* becomes done only in a step in which it finds every required slot filled
C28_ResetCreatesNewWaitTask ==
    [][/\ (resets' = resets + 1)
            => /\ init_gen' \notin DOMAIN init_tasks
               /\ init_tasks'[init_gen'] = "new"
               /\ ~Usable'
       /\ (upc = "idle" /\ upc' \in {"awaiting", "awaiting_plain"}) => uheld' = init_gen'
       /\ (upc = "awaiting_plain" /\ upc' = "idle" /\ raised' = "none")
            => init_tasks[uheld] = "done"
       /\ \A g \in DOMAIN init_tasks' :
              (init_tasks'[g] = "done" /\ (g \notin DOMAIN init_tasks \/ init_tasks[g] # "done"))
                  => (g \in DOMAIN init_tasks /\ Usable /\ resets' = resets)]_vars

\* after a reset the client is awaited again; the new wrapped task is done, with the
\* required slots filled again
C28_Witness ==
    /\ resets = 1
    /\ upc = "awaiting_plain"
    /\ uheld = init_gen
    /\ init_gen = 2
    /\ init_tasks[init_gen] = "done"
    /\ Usable

\* C29: the step in which the run ends with on_stop sets the status of the client to
\* UNAVAILABLE and leaves every capability slot as it is: implements(...) of any
\* kinds and usable() are the same after it as before it
C29_OnStopKeepsSlots ==
    [][(~finished /\ finished')
          => /\ fields'.state = "UNAVAILABLE"
             /\ behaviors' = behaviors
             /\ \A bs \in {required_behaviors, optional_behaviors} :
                    fields_not_none(behaviors', bs) = fields_not_none(behaviors, bs)]_vars

\* a complete run ended with on_stop: the client is UNAVAILABLE and still usable
C29_Witness ==
    /\ finished
    /\ hooklog = Hooks
    /\ fields.state = "UNAVAILABLE"
    /\ Usable
    /\ resets = 0

\* C30: while UbiiClient.IMPLEMENT_TIMEOUT is a number, every wait that
\* implements(...) creates has a deadline, also the one created without the argument
\* timeout
C30_ImplementTimeoutApplies ==
    [][\A w \in Waiters :
          (waiters'[w].st = "new" /\ waiters[w].st # "new" /\ implement_timeout # None)
              => Timed(waiters'[w].kind)]_vars

\* C31: once a decorator is registered for an instance, every call of the hook
\* through that instance evaluates the decorators of the instance wrapped around the
\* globally registered ones, the first call as well as every later one; a call
\* through another instance, or through none, evaluates the global decorators with
\* at most the decorators of its own instance, never those of this instance
C31_InstanceDecoratorOnEveryCall ==
    \A i \in DOMAIN hook_obj.instance_decorators :
        hook_obj.result # <<>>
            => IF hook_obj.instance = i
               THEN hook_obj.result
                        = compose(hook_obj.instance_decorators[i],
                                  Nested(hook_obj.decorators))
               ELSE hook_obj.result
                        \in {Nested(hook_obj.decorators),
                             Nested(RegisteredFor(hook_obj.instance))}

\* C32: a call of the decorated function whose wrapped call, or the await of what it
\* returned, raised anything (a cancellation as well) has called the handler exactly
\* once, with the exception that was raised, and then returns None, unless the
\* handler or the await of what it returned raised: then the call ends with that
\* exception; if nothing was raised the handler is not called and the call returns
\* the result of the wrapped call
C32_HandlerOnceThenNone ==
    inner.pc # "idle" =>
        /\ inner.calls <= 1
        /\ inner.pc \in {"returned", "raised"} =>
              IF inner.thrown # NoExc
              THEN /\ inner.calls = 1
                   /\ inner.exc_info = inner.thrown
                   /\ IF inner.handler_thrown = NoExc
                      THEN inner.pc = "returned" /\ inner.result = None
                      ELSE inner.pc = "raised" /\ inner.propagated = inner.handler_thrown
              ELSE /\ inner.calls = 0
                   /\ inner.pc = "returned"
                   /\ inner.result = inner.produced
                   /\ inner.produced # NoResult

\* the task was cancelled while it awaited the result of the wrapped call, the
\* handler was called with the cancellation and awaited, and the call returned None
C32_Witness ==
    /\ inner.pc = "returned"
    /\ inner.thrown = "CancelledError"
    /\ inner.handler = Awaitable
    /\ inner.calls = 1
    /\ inner.result = None

\* C33: whenever the marker _notifier is set, a _notify task is pending that will
\* call notify_all and clear the marker: the marker never refers to a task that was
\* cancelled or is finished
C33_MarkerHasPendingTask ==
    notifier => notify_tasks > 0

\* a call of reset() that ends with the ValueError of ClientInitTaskWrapper.reset
ResetFails ==
    /\ ~finished
    /\ \E supported \in {"yes", "no"} : Reset(supported)

\* C34: a reset() that fails because the protocol is not in its end state changes
\* nothing: the capability slots, the task nursery of the protocol and what it
\* holds, the wrapped "wait until usable" task, the state of the protocol and the
\* message fields of the client are what they were, whether the sentinel of the
\* nursery is alive or dead
C34_FailedResetChangesNothing ==
    [][ResetFails
          => /\ raised' = "reset:ValueError"
             /\ UNCHANGED <<behaviors, nursery_alive, migrated, init_gen, init_tasks,
                            ppc, fields, notifier, notify_tasks>>]_vars

\* C35: whenever reset() returns without raising, the protocol is in its state "not
\* started": no reset() returns with the slots cleared, a new wrapped task and the
\* message fields restored while the protocol is still in its end state
C35_ResetNeverHalfDone ==
    [][((\E supported \in {"yes", "no"} : Reset(supported)) /\ raised' = "none")
          => ppc' = "not_started"]_vars

\* the keys of _behaviors
Keys(bmap) == {k \in AllKinds : bmap[k] # NoInst}

\* C36: the keys of the capability map are the declared required and optional kinds,
\* no more and no less, and the declared kinds that behaviors() returns are those
\* given at construction, whatever slot writes, replacements and resets were made
C36_KeysAreTheDeclaredKinds ==
    /\ Keys(behaviors) = Range(declared.required) \cup Range(declared.optional)
    /\ declared = [required |-> required_behaviors, optional |-> optional_behaviors]

\* usable() of one of the two clients
ClientUsable(cs, c) == fields_not_none(cs[c].behaviors, required_behaviors) = "True"

\* C37: two clients that declare the same kinds are isolated. A slot write on one
\* client schedules the signal of that client and changes nothing of the other one:
\* none of its slots, not its pending signal, not the value of its usable(), not
\* the state of the task that waits for it; and the signal of one client wakes no
\* task that waits for the other one
C37_ClientsAreIsolated ==
    [][\A c \in Clients : \A d \in Clients \ {c} :
          /\ (\E k \in Declared : \E f \in Range(Fields(k)) : \E v \in {None, Val} :
                 ClientSlotWrite(c, k, f, v))
                => /\ clients'[c].notifier /\ clients'[c].notify_tasks = 1
                   /\ clients'[d] = clients[d]
                   /\ ClientUsable(clients', d) = ClientUsable(clients, d)
          /\ ClientDeliver(c)
                => /\ clients'[d].init = clients[d].init
                   /\ clients'[d].behaviors = clients[d].behaviors]_vars

\* a slot of client A is filled and its signal is pending, while client B has no
\* signal pending, all its slots empty and its task waiting
C37_Witness ==
    /\ clients # <<>>
    /\ clients["A"].behaviors[Services]["service_map"] = Val
    /\ clients["A"].notify_tasks = 1
    /\ clients["B"].notify_tasks = 0
    /\ ~clients["B"].notifier
    /\ clients["B"].init = "waiting"
    /\ \A k \in Declared : \A f \in Range(Fields(k)) : clients["B"].behaviors[k][f] = None

\* C38: the stack of configs is never empty and its bottom element is the base
\* config, so that effective_config is defined in every state; and change() with
\* neither a config nor a verbosity raises ValueError and leaves the stack as it was
C38_StackKeepsBaseConfig ==
    /\ [](logging_setup.imported
            => /\ logging_setup.configs # <<>>
               /\ logging_setup.configs[1] = base_config
               /\ effective_config(logging_setup.configs).exc = "none")
    /\ [][Change(None, None)
            => /\ raised' = "logging:ValueError"
               /\ logging_setup'.configs = logging_setup.configs]_vars

\* C39: reset() leaves the base config as the only entry of the stack and as the
\* effective and applied config, and so does leaving a with-block with an
\* exception; leaving it without an exception removes the most recent change and
\* applies the entry before it again
C39_ResetRestoresBaseConfig ==
    [][/\ (ResetLogging \/ Exit(TRUE))
            => /\ logging_setup'.configs = <<base_config>>
               /\ effective_config(logging_setup'.configs).value = base_config
               /\ logging_setup'.applied = base_config
       /\ (Exit(FALSE) /\ Len(logging_setup.configs) > 1)
            => /\ logging_setup'.configs
                      = SubSeq(logging_setup.configs, 1, Len(logging_setup.configs) - 1)
               /\ logging_setup'.applied
                      = logging_setup.configs[Len(logging_setup.configs) - 1]]_vars

====
